---- MODULE Spec2Model ----
(***************************************************************************)
(* Option handling of the PXF foreign-data wrapper                         *)
(* (contrib/pxf_fdw/pxf_option.c): the validator pxf_fdw_validator, its    *)
(* helpers, and the resolver PxfGetOptions.                                *)
(*                                                                         *)
(* Representation.  A C string is the sequence of its characters, so that  *)
(* case folding, substring search and number parsing are computed.  A      *)
(* nullable pointer is a sequence of length 0 (NULL) or 1.  An Oid of a    *)
(* catalog is the name of that catalog relation.  An option name is a      *)
(* string: names are only ever compared with strcmp/equal().               *)
(***************************************************************************)
EXTENDS Integers, Sequences, FiniteSets, TLC

VARIABLES catalog, v, r

vars == <<catalog, v, r>>

----------------------------------------------------------------------------
(* Bounds of the model.                                                    *)

\* longest option list submitted to one validator call
MaxLen == 3
\* longest concatenation of the four option lists handed to the resolver
MaxTotal == 3
\* longest option list of a foreign table created through the validator
MaxTableLen == 3

----------------------------------------------------------------------------
(* C strings and pointers.                                                 *)

NULL == <<>>
Ptr(x) == <<x>>
Deref(p) == p[1]

UpperChars == <<"A","B","C","D","E","F","G","H","I","J","K","L","M",
                "N","O","P","Q","R","S","T","U","V","W","X","Y","Z">>
LowerChars == <<"a","b","c","d","e","f","g","h","i","j","k","l","m",
                "n","o","p","q","r","s","t","u","v","w","x","y","z">>

pg_tolower(c) ==
    IF \E i \in 1..26 : UpperChars[i] = c
    THEN LowerChars[CHOOSE i \in 1..26 : UpperChars[i] = c]
    ELSE c

FoldCase(s) == [i \in 1..Len(s) |-> pg_tolower(s[i])]

\* 0 when the two strings are equal ignoring case, nonzero otherwise
\* (the sign of a nonzero result is never used by the callers).
pg_strcasecmp(s1, s2) == IF FoldCase(s1) = FoldCase(s2) THEN 0 ELSE 1

\* 0 when the two strings are equal, nonzero otherwise.
strcmp(s1, s2) == IF s1 = s2 THEN 0 ELSE 1

\* TRUE when the result is not NULL: needle occurs in haystack ignoring case.
strcasestr(haystack, needle) ==
    \E i \in 1..(Len(haystack) - Len(needle) + 1) :
        FoldCase(SubSeq(haystack, i, i + Len(needle) - 1)) = FoldCase(needle)

----------------------------------------------------------------------------
(* strtol(.., 10) followed by the conversion to int.  A long is kept as    *)
(* four 16-bit limbs of its magnitude, since the values exceed the         *)
(* integers of the model checker; the int is the low 32 bits, signed.      *)

Digits == <<"0","1","2","3","4","5","6","7","8","9">>
IsDigit(c) == \E i \in 1..10 : Digits[i] = c
DigitVal(c) == (CHOOSE i \in 1..10 : Digits[i] = c) - 1
isspace(c) == c \in {" ", "\t", "\n"}

ZeroMag == [l0 |-> 0, l1 |-> 0, l2 |-> 0, l3 |-> 0, ovf |-> FALSE]

\* magnitude * 10 + d, limb by limb; ovf once the magnitude needs over 64 bits
MulAdd(m, d) ==
    LET t0 == m.l0 * 10 + d
        t1 == m.l1 * 10 + (t0 \div 65536)
        t2 == m.l2 * 10 + (t1 \div 65536)
        t3 == m.l3 * 10 + (t2 \div 65536)
    IN  [l0 |-> t0 % 65536, l1 |-> t1 % 65536, l2 |-> t2 % 65536,
         l3 |-> t3 % 65536, ovf |-> m.ovf \/ t3 >= 65536]

RECURSIVE SkipSpace(_, _)
SkipSpace(s, i) ==
    IF i <= Len(s) /\ isspace(s[i]) THEN SkipSpace(s, i + 1) ELSE i

RECURSIVE ParseDigits(_, _, _, _)
\* <<magnitude, number of digits consumed>> from position i on
ParseDigits(s, i, m, n) ==
    IF i <= Len(s) /\ IsDigit(s[i])
    THEN ParseDigits(s, i + 1, MulAdd(m, DigitVal(s[i])), n + 1)
    ELSE <<m, n>>

\* [moved: endptr differs from nptr, neg, mag, sat: the result is LONG_MAX or
\*  LONG_MIN because the value is out of the range of long]
strtol(nptr) ==
    LET i0   == SkipSpace(nptr, 1)
        sign == i0 <= Len(nptr) /\ nptr[i0] \in {"+", "-"}
        neg  == sign /\ nptr[i0] = "-"
        i1   == IF sign THEN i0 + 1 ELSE i0
        p    == ParseDigits(nptr, i1, ZeroMag, 0)
        m    == p[1]
        big  == m.ovf \/ m.l3 >= 32768
    IN  [moved |-> p[2] > 0,
         neg   |-> neg,
         mag   |-> m,
         sat   |-> IF neg THEN big /\ ~(~m.ovf /\ m.l3 = 32768 /\ m.l2 = 0
                                        /\ m.l1 = 0 /\ m.l0 = 0)
                          ELSE big]

\* the low 32 bits <<l1, l0>> read as a signed int
Signed32(l1, l0) ==
    IF l1 >= 32768 THEN (l1 - 65536) * 65536 + l0 ELSE l1 * 65536 + l0

\* (int) of a long
IntOfLong(x) ==
    IF ~x.moved THEN 0
    ELSE IF x.sat \/ (x.neg /\ x.mag.l3 = 32768)
         THEN (IF x.neg THEN 0 ELSE -1)      \* low bits of LONG_MIN, LONG_MAX
    ELSE LET s == Signed32(x.mag.l1, x.mag.l0)
         IN  IF ~x.neg THEN s
             ELSE IF x.mag.l1 = 32768 /\ x.mag.l0 = 0 THEN s
             ELSE -s

\* atoi(s) is (int) strtol(s, NULL, 10)
atoi(s) == IntOfLong(strtol(s))

----------------------------------------------------------------------------
(* Names and tokens.                                                       *)

FDW_OPTION_FORMAT_TEXT == <<"t","e","x","t">>
FDW_OPTION_FORMAT_CSV == <<"c","s","v">>
FDW_OPTION_FORMAT_RC == <<"r","c">>
FDW_OPTION_REJECT_LIMIT_ROWS == <<"r","o","w","s">>
FDW_OPTION_REJECT_LIMIT_PERCENT == <<"p","e","r","c","e","n","t">>

FDW_OPTION_PROTOCOL == "protocol"
FDW_OPTION_RESOURCE == "resource"
FDW_OPTION_FORMAT == "format"
FDW_OPTION_REJECT_LIMIT_TYPE == "reject_limit_type"
FDW_OPTION_REJECT_LIMIT == "reject_limit"
FDW_OPTION_WIRE_FORMAT == "wire_format"
FDW_OPTION_PXF_PORT == "pxf_port"
FDW_OPTION_PXF_HOST == "pxf_host"
FDW_OPTION_PXF_PROTOCOL == "pxf_protocol"

\* tokens of pxf_fdw.h
TextFormatName == <<"T","E","X","T">>
GpdbWritableFormatName == <<"G","P","D","B","W","r","i","t","a","b","l","e">>
PXF_FDW_DEFAULT_HOST == <<"l","o","c","a","l","h","o","s","t">>
PXF_FDW_DEFAULT_PROTOCOL == <<"h","t","t","p">>
PXF_FDW_DEFAULT_PORT == 5888

\* catalogs (an Oid is written as the name of its relation)
ForeignDataWrapperRelationId == "pg_foreign_data_wrapper"
ForeignServerRelationId == "pg_foreign_server"
UserMappingRelationId == "pg_user_mapping"
ForeignTableRelationId == "pg_foreign_table"
AttributeRelationId == "pg_attribute"

RelationGetRelationName(relid) == relid

valid_options == <<
    [optname |-> FDW_OPTION_PROTOCOL, optcontext |-> ForeignDataWrapperRelationId],
    [optname |-> FDW_OPTION_RESOURCE, optcontext |-> ForeignTableRelationId],
    [optname |-> FDW_OPTION_FORMAT, optcontext |-> ForeignTableRelationId],
    [optname |-> FDW_OPTION_WIRE_FORMAT, optcontext |-> ForeignTableRelationId],
    [optname |-> FDW_OPTION_REJECT_LIMIT, optcontext |-> ForeignTableRelationId],
    [optname |-> FDW_OPTION_REJECT_LIMIT_TYPE, optcontext |-> ForeignTableRelationId] >>

valid_copy_options == <<
    [optname |-> "format", optcontext |-> ForeignTableRelationId],
    [optname |-> "header", optcontext |-> ForeignTableRelationId],
    [optname |-> "delimiter", optcontext |-> ForeignTableRelationId],
    [optname |-> "quote", optcontext |-> ForeignTableRelationId],
    [optname |-> "escape", optcontext |-> ForeignTableRelationId],
    [optname |-> "null", optcontext |-> ForeignTableRelationId],
    [optname |-> "encoding", optcontext |-> ForeignTableRelationId],
    [optname |-> "newline", optcontext |-> ForeignTableRelationId],
    [optname |-> "fill_missing_fields", optcontext |-> ForeignTableRelationId],
    [optname |-> "force_not_null", optcontext |-> AttributeRelationId],
    [optname |-> "force_null", optcontext |-> AttributeRelationId] >>

----------------------------------------------------------------------------
(* Options and errors.                                                     *)

DefElem(name, value) == [defname |-> name, arg |-> value]
defGetString(def) == def.arg

NoError == [errcode |-> "", errmsg |-> "", arg |-> <<>>]
Error(code, msg, a) == [errcode |-> code, errmsg |-> msg, arg |-> a]

Min(S) == CHOOSE x \in S : \A y \in S : x <= y

\* accepted spellings of a boolean option value
BooleanWords == {<<"t","r","u","e">>, <<"f","a","l","s","e">>,
                 <<"o","n">>, <<"o","f","f">>}

\* NoError, or the error raised for a value that is no legal boolean
defGetBoolean(def) ==
    IF \E w \in BooleanWords : pg_strcasecmp(defGetString(def), w) = 0
    THEN NoError
    ELSE Error("ERRCODE_SYNTAX_ERROR", "requires a Boolean value",
               <<def.defname>>)

----------------------------------------------------------------------------
(* Helpers of the validator.                                               *)

\* IsValidCopyOption without the comparison of the context
IsValidCopyOption_AnyContext(option, context) ==
    \E i \in 1..Len(valid_copy_options) :
        valid_copy_options[i].optname = option

IsValidCopyOption(option, context) ==
    \E i \in 1..Len(valid_copy_options) :
        /\ context = valid_copy_options[i].optcontext
        /\ valid_copy_options[i].optname = option

IsCopyOption(option) ==
    \E i \in 1..Len(valid_copy_options) :
        valid_copy_options[i].optname = option

\* ValidateOption naming the catalog it was called for instead of the
\* catalog of the entry
ValidateOption_NamesCaller(option, cat) ==
    LET bad == {i \in 1..Len(valid_options) :
                   /\ valid_options[i].optname = option
                   /\ cat # valid_options[i].optcontext}
    IN  IF bad = {} THEN NoError
        ELSE Error("ERRCODE_FDW_INVALID_OPTION_NAME",
                   "the option can only be defined at the level",
                   <<option, RelationGetRelationName(cat)>>)

\* NoError, or the error of the first entry of valid_options with this name
\* and another catalog
ValidateOption(option, cat) ==
    LET bad == {i \in 1..Len(valid_options) :
                   /\ valid_options[i].optname = option
                   /\ cat # valid_options[i].optcontext}
    IN  IF bad = {} THEN NoError
        ELSE Error("ERRCODE_FDW_INVALID_OPTION_NAME",
                   "the option can only be defined at the level",
                   <<option,
                     RelationGetRelationName(valid_options[Min(bad)].optcontext)>>)

\* the hint: the names of valid_copy_options legal in this catalog, in order
ValidCopyOptionNames(cat) ==
    LET idx == {i \in 1..Len(valid_copy_options) :
                   valid_copy_options[i].optcontext = cat}
        F[k \in 0..Len(valid_copy_options)] ==
            IF k = 0 THEN <<>>
            ELSE IF k \in idx THEN Append(F[k - 1], valid_copy_options[k].optname)
            ELSE F[k - 1]
    IN  F[Len(valid_copy_options)]

\* outcomes of the core COPY validation for a list that is not empty
ProcessCopyOutcomes ==
    {NoError, Error("ProcessCopyOptions", "rejected by the COPY code", <<>>)}

\* the core COPY validation: an empty list is accepted, any other list is
\* accepted or rejected as the COPY code decides (outcome)
ProcessCopyOptions(options, outcome) ==
    IF options = <<>> THEN NoError ELSE outcome

RECURSIVE ValidateCopyLoop(_, _, _, _, _, _, _)
\* the foreach of ValidateCopyOptions from cell i on, then ProcessCopyOptions
ValidateCopyLoop(options_list, i, cat, force_not_null, force_null, copy_options, outcome) ==
    IF i > Len(options_list)
    THEN ProcessCopyOptions(copy_options, outcome)
    ELSE
      LET def == options_list[i] IN
      IF ~IsValidCopyOption(def.defname, cat)
      THEN Error("ERRCODE_FDW_INVALID_OPTION_NAME", "invalid option",
                 <<def.defname>> \o ValidCopyOptionNames(cat))
      ELSE IF def.defname = "force_not_null"
      THEN IF force_not_null # NULL
           THEN Error("ERRCODE_SYNTAX_ERROR",
                      "conflicting or redundant options", <<"force_not_null">>)
           ELSE IF defGetBoolean(def) # NoError THEN defGetBoolean(def)
           ELSE ValidateCopyLoop(options_list, i + 1, cat, Ptr(def),
                                 force_null, copy_options, outcome)
      ELSE IF def.defname = "force_null"
      THEN IF force_null # NULL
           THEN Error("ERRCODE_SYNTAX_ERROR",
                      "conflicting or redundant options", <<"force_null">>)
           ELSE IF defGetBoolean(def) # NoError THEN defGetBoolean(def)
           ELSE ValidateCopyLoop(options_list, i + 1, cat, force_not_null,
                                 Ptr(def), copy_options, outcome)
      ELSE ValidateCopyLoop(options_list, i + 1, cat, force_not_null,
                            force_null, Append(copy_options, def), outcome)

ValidateCopyOptions(options_list, cat, outcome) ==
    ValidateCopyLoop(options_list, 1, cat, NULL, NULL, <<>>, outcome)

----------------------------------------------------------------------------
(* pxf_fdw_validator, statement by statement.  The record holds the        *)
(* arguments, the locals and the position of one call; reported is the     *)
(* history of the errors raised, delegated that of the calls made to       *)
(* ValidateCopyOptions, and trace that of the statements executed, each    *)
(* with the cell it was executed for.                                      *)

VPcs == {"idle", "ValidateOption", "dispatch", "protocol_check",
         "resource_check", "reject_limit_check", "ValidateCopyOptions",
         "return", "error"}

VIdle ==
    [pc |-> "idle", catalog |-> "", options_list |-> <<>>, cell |-> 1,
     protocol |-> NULL, resource |-> NULL,
     reject_limit_type |-> FDW_OPTION_REJECT_LIMIT_ROWS, reject_limit |-> -1,
     copy_options |-> <<>>, reported |-> <<>>, delegated |-> <<>>,
     trace |-> <<>>]

\* the state on entry, locals initialised (lines 127-134)
VInit(options_list, cat) ==
    [VIdle EXCEPT !.pc = IF options_list = <<>> THEN "protocol_check"
                         ELSE "ValidateOption",
                  !.catalog = cat,
                  !.options_list = options_list]

\* ereport(ERROR, ..) leaves the function
ereport(st, err) ==
    [st EXCEPT !.pc = "error", !.reported = Append(@, err)]

\* the end of one iteration of the foreach
NextCell(st) ==
    IF st.cell < Len(st.options_list)
    THEN [st EXCEPT !.pc = "ValidateOption", !.cell = @ + 1]
    ELSE [st EXCEPT !.pc = "protocol_check"]

\* line 141 with the error reported without leaving the function
ValidateOptionStep_Continues(st) ==
    LET err == ValidateOption(st.options_list[st.cell].defname, st.catalog)
    IN  IF err # NoError
        THEN [st EXCEPT !.pc = "dispatch", !.reported = Append(@, err)]
        ELSE [st EXCEPT !.pc = "dispatch"]

\* line 141
ValidateOptionStep(st) ==
    LET err == ValidateOption(st.options_list[st.cell].defname, st.catalog)
    IN  IF err # NoError THEN ereport(st, err)
        ELSE [st EXCEPT !.pc = "dispatch"]

\* lines 173-185
RejectLimitOption(st, def) ==
    LET pStr == defGetString(def)
        l    == strtol(pStr)
        n    == IntOfLong(l)
    IN  IF ~l.moved \/ n < 1
        THEN ereport([st EXCEPT !.reject_limit = n],
                     Error("ERRCODE_FDW_INVALID_STRING_FORMAT",
                           "invalid reject_limit value, should be a positive integer",
                           <<pStr>>))
        ELSE NextCell([st EXCEPT !.reject_limit = n])

\* lines 186-196
RejectLimitTypeOption(st, def) ==
    LET t == defGetString(def)
    IN  IF /\ pg_strcasecmp(t, FDW_OPTION_REJECT_LIMIT_ROWS) # 0
           /\ pg_strcasecmp(t, FDW_OPTION_REJECT_LIMIT_PERCENT) # 0
        THEN ereport([st EXCEPT !.reject_limit_type = t],
                     Error("ERRCODE_FDW_INVALID_STRING_FORMAT",
                           "invalid reject_limit_type value", <<>>))
        ELSE NextCell([st EXCEPT !.reject_limit_type = t])

\* lines 143-198
DispatchStep(st) ==
    LET def == st.options_list[st.cell] IN
    IF def.defname = FDW_OPTION_PROTOCOL
    THEN NextCell([st EXCEPT !.protocol = Ptr(defGetString(def))])
    ELSE IF def.defname = FDW_OPTION_RESOURCE
    THEN NextCell([st EXCEPT !.resource = Ptr(defGetString(def))])
    ELSE IF def.defname = FDW_OPTION_WIRE_FORMAT
    THEN IF /\ strcmp(TextFormatName, defGetString(def)) # 0
            /\ strcmp(GpdbWritableFormatName, defGetString(def)) # 0
         THEN ereport(st, Error("ERRCODE_FDW_INVALID_ATTRIBUTE_VALUE",
                                "invalid wire_format value", <<>>))
         ELSE NextCell(st)
    ELSE IF def.defname = FDW_OPTION_FORMAT
    THEN IF \/ pg_strcasecmp(defGetString(def), FDW_OPTION_FORMAT_TEXT) = 0
            \/ pg_strcasecmp(defGetString(def), FDW_OPTION_FORMAT_CSV) = 0
         THEN NextCell([st EXCEPT !.copy_options = Append(@, def)])
         ELSE NextCell(st)
    ELSE IF def.defname = FDW_OPTION_REJECT_LIMIT
    THEN RejectLimitOption(st, def)
    ELSE IF def.defname = FDW_OPTION_REJECT_LIMIT_TYPE
    THEN RejectLimitTypeOption(st, def)
    ELSE IF IsCopyOption(def.defname)
    THEN NextCell([st EXCEPT !.copy_options = Append(@, def)])
    ELSE NextCell(st)

\* lines 201-208 without the test for the empty string
ProtocolCheckStep_NullOnly(st) ==
    IF st.catalog = ForeignDataWrapperRelationId /\ st.protocol = NULL
    THEN ereport(st, Error("ERRCODE_FDW_DYNAMIC_PARAMETER_VALUE_NEEDED",
                           "the protocol option must be defined for PXF foreign-data wrappers",
                           <<>>))
    ELSE [st EXCEPT !.pc = "resource_check"]

\* lines 201-208
ProtocolCheckStep(st) ==
    IF /\ st.catalog = ForeignDataWrapperRelationId
       /\ (st.protocol = NULL \/ strcmp(Deref(st.protocol), <<>>) = 0)
    THEN ereport(st, Error("ERRCODE_FDW_DYNAMIC_PARAMETER_VALUE_NEEDED",
                           "the protocol option must be defined for PXF foreign-data wrappers",
                           <<>>))
    ELSE [st EXCEPT !.pc = "resource_check"]

\* lines 210-217
ResourceCheckStep(st) ==
    IF /\ st.catalog = ForeignTableRelationId
       /\ (st.resource = NULL \/ strcmp(Deref(st.resource), <<>>) = 0)
    THEN ereport(st, Error("ERRCODE_FDW_DYNAMIC_PARAMETER_VALUE_NEEDED",
                           "the resource option must be defined at the foreign table level",
                           <<>>))
    ELSE [st EXCEPT !.pc = "reject_limit_check"]

\* a cross-check that leaves the row-counted limit unchecked
RejectLimitCheckStep_PercentOnly(st) ==
    IF /\ st.reject_limit # -1
       /\ pg_strcasecmp(st.reject_limit_type, FDW_OPTION_REJECT_LIMIT_ROWS) # 0
       /\ (st.reject_limit < 1 \/ st.reject_limit > 100)
    THEN ereport(st, Error("ERRCODE_FDW_INVALID_STRING_FORMAT",
                           "invalid (PERCENT) reject_limit value", <<>>))
    ELSE [st EXCEPT !.pc = "ValidateCopyOptions"]

\* lines 219-240
RejectLimitCheckStep(st) ==
    IF st.reject_limit # -1
    THEN IF pg_strcasecmp(st.reject_limit_type, FDW_OPTION_REJECT_LIMIT_ROWS) = 0
         THEN IF st.reject_limit < 2
              THEN ereport(st, Error("ERRCODE_FDW_INVALID_STRING_FORMAT",
                                     "invalid (ROWS) reject_limit value", <<>>))
              ELSE [st EXCEPT !.pc = "ValidateCopyOptions"]
         ELSE IF st.reject_limit < 1 \/ st.reject_limit > 100
              THEN ereport(st, Error("ERRCODE_FDW_INVALID_STRING_FORMAT",
                                     "invalid (PERCENT) reject_limit value", <<>>))
              ELSE [st EXCEPT !.pc = "ValidateCopyOptions"]
    ELSE [st EXCEPT !.pc = "ValidateCopyOptions"]

\* lines 245-247
ValidateCopyOptionsStep(st, outcome) ==
    LET called == [st EXCEPT !.delegated =
                       Append(@, [options_list |-> st.copy_options,
                                  catalog |-> st.catalog])]
        err == ValidateCopyOptions(st.copy_options, st.catalog, outcome)
    IN  IF err # NoError THEN ereport(called, err)
        ELSE [called EXCEPT !.pc = "return"]

\* the statement at st.pc, executed
VStep(st, outcome) ==
    LET at == [st EXCEPT !.trace = Append(@, <<st.pc, st.cell>>)] IN
    CASE st.pc = "ValidateOption" -> ValidateOptionStep(at)
      [] st.pc = "dispatch" -> DispatchStep(at)
      [] st.pc = "protocol_check" -> ProtocolCheckStep(at)
      [] st.pc = "resource_check" -> ResourceCheckStep(at)
      [] st.pc = "reject_limit_check" -> RejectLimitCheckStep(at)
      [] st.pc = "ValidateCopyOptions" -> ValidateCopyOptionsStep(at, outcome)
      [] OTHER -> st

RECURSIVE VRun(_, _)
VRun(st, outcome) ==
    IF st.pc \in {"return", "error", "idle"} THEN st
    ELSE VRun(VStep(st, outcome), outcome)

\* one whole call: the final state of the validator
pxf_fdw_validator(options_list, cat, outcome) ==
    VRun(VInit(options_list, cat), outcome)

----------------------------------------------------------------------------
(* PxfGetOptions.                                                          *)

\* the server of the foreign table, and the server of another table
TableServerId == "server"
OtherServerId == "other_server"
ServerIds == {TableServerId, OtherServerId}

\* memset(opt, 0, ..) and lines 350-354
EmptyOptions ==
    [pxf_host |-> NULL, pxf_port |-> 0, pxf_protocol |-> NULL,
     protocol |-> NULL, resource |-> NULL, profile |-> NULL,
     format |-> NULL, wire_format |-> NULL,
     reject_limit |-> -1, is_reject_limit_rows |-> TRUE,
     copy_options |-> <<>>, options |-> <<>>]

GetWireFormatName(format) ==
    IF /\ format # NULL
       /\ \/ strcasestr(Deref(format), FDW_OPTION_FORMAT_TEXT)
          \/ pg_strcasecmp(Deref(format), FDW_OPTION_FORMAT_CSV) # 0
          \/ pg_strcasecmp(Deref(format), FDW_OPTION_FORMAT_RC) # 0
    THEN TextFormatName
    ELSE GpdbWritableFormatName

\* list_member() of a list of String values
list_member(list, val) == \E i \in 1..Len(list) : list[i] = val

\* lines 378-384
PortOption(m, def) ==
    LET port == atoi(defGetString(def))
        set  == [m EXCEPT !.opt.pxf_port = port]
    IN  IF port <= 0 \/ port >= 65535
        THEN [set EXCEPT !.error = Error("ERROR", "invalid port number",
                                         <<defGetString(def)>>)]
        ELSE set

\* lines 407-416 with a later occurrence replacing the one kept
OtherOption_LastWins(m, def) ==
    IF ~list_member(m.other_option_names, def.defname)
    THEN [m EXCEPT !.other_options = Append(@, def),
                   !.other_option_names = Append(@, def.defname)]
    ELSE [m EXCEPT !.other_options =
              [k \in DOMAIN @ |-> IF @[k].defname = def.defname THEN def
                                  ELSE @[k]]]

\* lines 407-416
OtherOption(m, def) ==
    IF ~list_member(m.other_option_names, def.defname)
    THEN [m EXCEPT !.other_options = Append(@, def),
                   !.other_option_names = Append(@, def.defname)]
    ELSE m

\* lines 395-402 with every format forwarded to the COPY options
FormatOption_AlwaysForwards(m, def) ==
    [m EXCEPT !.opt.format = Ptr(defGetString(def)),
              !.copy_options = Append(@, def)]

\* lines 395-402
FormatOption(m, def) ==
    LET set == [m EXCEPT !.opt.format = Ptr(defGetString(def))]
    IN  IF \/ pg_strcasecmp(defGetString(def), FDW_OPTION_FORMAT_TEXT) = 0
           \/ pg_strcasecmp(defGetString(def), FDW_OPTION_FORMAT_CSV) = 0
        THEN [set EXCEPT !.copy_options = Append(@, def)]
        ELSE set

\* the foreach of lines 371-417 with the first pxf_host kept
MergeOption_FirstHostWins(m, def) ==
    IF def.defname = FDW_OPTION_PXF_HOST
    THEN IF m.opt.pxf_host = NULL
         THEN [m EXCEPT !.opt.pxf_host = Ptr(defGetString(def))]
         ELSE m
    ELSE IF def.defname = FDW_OPTION_PXF_PORT
    THEN PortOption(m, def)
    ELSE IF def.defname = FDW_OPTION_PXF_PROTOCOL
    THEN [m EXCEPT !.opt.pxf_protocol = Ptr(defGetString(def))]
    ELSE IF def.defname = FDW_OPTION_PROTOCOL
    THEN [m EXCEPT !.opt.protocol = Ptr(defGetString(def))]
    ELSE IF def.defname = FDW_OPTION_RESOURCE
    THEN [m EXCEPT !.opt.resource = Ptr(defGetString(def))]
    ELSE IF def.defname = FDW_OPTION_REJECT_LIMIT
    THEN [m EXCEPT !.opt.reject_limit = atoi(defGetString(def))]
    ELSE IF def.defname = FDW_OPTION_REJECT_LIMIT_TYPE
    THEN [m EXCEPT !.opt.is_reject_limit_rows =
              (pg_strcasecmp(FDW_OPTION_REJECT_LIMIT_ROWS, defGetString(def)) = 0)]
    ELSE IF def.defname = FDW_OPTION_FORMAT
    THEN FormatOption(m, def)
    ELSE IF def.defname = FDW_OPTION_WIRE_FORMAT
    THEN [m EXCEPT !.opt.wire_format = Ptr(defGetString(def))]
    ELSE IF IsCopyOption(def.defname)
    THEN [m EXCEPT !.copy_options = Append(@, def)]
    ELSE OtherOption(m, def)

\* one iteration of the foreach of lines 371-417
MergeOption(m, def) ==
    IF def.defname = FDW_OPTION_PXF_HOST
    THEN [m EXCEPT !.opt.pxf_host = Ptr(defGetString(def))]
    ELSE IF def.defname = FDW_OPTION_PXF_PORT
    THEN PortOption(m, def)
    ELSE IF def.defname = FDW_OPTION_PXF_PROTOCOL
    THEN [m EXCEPT !.opt.pxf_protocol = Ptr(defGetString(def))]
    ELSE IF def.defname = FDW_OPTION_PROTOCOL
    THEN [m EXCEPT !.opt.protocol = Ptr(defGetString(def))]
    ELSE IF def.defname = FDW_OPTION_RESOURCE
    THEN [m EXCEPT !.opt.resource = Ptr(defGetString(def))]
    ELSE IF def.defname = FDW_OPTION_REJECT_LIMIT
    THEN [m EXCEPT !.opt.reject_limit = atoi(defGetString(def))]
    ELSE IF def.defname = FDW_OPTION_REJECT_LIMIT_TYPE
    THEN [m EXCEPT !.opt.is_reject_limit_rows =
              (pg_strcasecmp(FDW_OPTION_REJECT_LIMIT_ROWS, defGetString(def)) = 0)]
    ELSE IF def.defname = FDW_OPTION_FORMAT
    THEN FormatOption(m, def)
    ELSE IF def.defname = FDW_OPTION_WIRE_FORMAT
    THEN [m EXCEPT !.opt.wire_format = Ptr(defGetString(def))]
    ELSE IF IsCopyOption(def.defname)
    THEN [m EXCEPT !.copy_options = Append(@, def)]
    ELSE OtherOption(m, def)

RECURSIVE MergeLoop(_, _, _)
\* the foreach from cell i on; elog(ERROR) leaves it
MergeLoop(options, i, m) ==
    IF i > Len(options) \/ m.error # NoError THEN m
    ELSE MergeLoop(options, i + 1, MergeOption(m, options[i]))

\* lines 364-368
ConcatOptions(table, user, server, wrapper) ==
    table.options \o user.options \o server.options \o wrapper.options

\* what "%s" prints for a NULL argument where the C library prints at all
NullString == <<"(","n","u","l","l",")">>

\* outcomes of psprintf("%s:%s", NULL, ..): the library prints "(null)" or
\* the process crashes; with a protocol there is one outcome
ProfileOutcomes(opt) ==
    IF opt.format # NULL /\ opt.protocol = NULL THEN {"(null)", "crash"}
    ELSE {"print"}

\* lines 419-446, after a loop that raised no error
Derive(m, outcome) ==
    LET o1 == [m.opt EXCEPT !.copy_options = m.copy_options,
                            !.options = m.other_options]
        o2 == [o1 EXCEPT !.profile =
                   IF o1.format = NULL THEN o1.protocol
                   ELSE Ptr((IF o1.protocol = NULL THEN NullString
                             ELSE Deref(o1.protocol))
                            \o <<":">> \o Deref(o1.format))]
        o3 == [o2 EXCEPT !.pxf_host =
                   IF @ = NULL THEN Ptr(PXF_FDW_DEFAULT_HOST) ELSE @]
        o4 == [o3 EXCEPT !.pxf_port =
                   IF @ = 0 THEN PXF_FDW_DEFAULT_PORT ELSE @]
        o5 == [o4 EXCEPT !.pxf_protocol =
                   IF @ = NULL THEN Ptr(PXF_FDW_DEFAULT_PROTOCOL) ELSE @]
    IN  [o5 EXCEPT !.wire_format =
             IF @ = NULL THEN Ptr(GetWireFormatName(o5.format)) ELSE @]

\* lines 364-448 on the four fetched objects: [pc, opt, error]
MergeOptions(table, user, server, wrapper, outcome) ==
    LET options == ConcatOptions(table, user, server, wrapper)
        m == MergeLoop(options, 1,
                       [opt |-> EmptyOptions, copy_options |-> <<>>,
                        other_options |-> <<>>, other_option_names |-> <<>>,
                        error |-> NoError])
    IN  IF m.error # NoError
        THEN [pc |-> "error", opt |-> m.opt, error |-> m.error]
        ELSE IF outcome = "crash"
        THEN [pc |-> "crash", opt |-> m.opt, error |-> NoError]
        ELSE [pc |-> "return", opt |-> Derive(m, outcome), error |-> NoError]

----------------------------------------------------------------------------
(* The catalog and one call of PxfGetOptions, fetch by fetch.              *)
(* catalog.fdw, .srv and .ft hold the option list of the wrapper, of the   *)
(* server and of the foreign table (NULL: not created), catalog.um that of *)
(* the user mapping of each server.                                        *)

EmptyCatalog ==
    [fdw |-> NULL, srv |-> NULL, ft |-> NULL,
     um |-> [s \in ServerIds |-> NULL]]

RIdle ==
    [pc |-> "idle", table |-> NULL, user |-> NULL, server |-> NULL,
     wrapper |-> NULL, opt |-> EmptyOptions, error |-> NoError,
     fetched |-> <<>>]

\* line 359
GetForeignTable(cat) ==
    [options |-> Deref(cat.ft), serverid |-> TableServerId]

\* line 361
GetForeignServer(cat, serverid) ==
    [options |-> Deref(cat.srv), serverid |-> serverid]

\* line 362
GetForeignDataWrapper(cat) == [options |-> Deref(cat.fdw)]

\* What server->serverid yields at line 360.  The variable server is
\* assigned at line 361 only: read before that, it is an uninitialized
\* pointer, and the read yields the id of some server, an id of no server,
\* or a crash.
ServerIdRead(call) ==
    IF call.server # NULL THEN {Deref(call.server).serverid}
    ELSE ServerIds \cup {"garbage", "crash"}

\* line 360 with the id read: the mapping of that server, or the error of
\* GetUserMapping when there is none
GetUserMappingStep(call, cat, id) ==
    LET done == [call EXCEPT !.fetched = Append(@, <<"GetUserMapping", id>>)] IN
    IF id = "crash" THEN [done EXCEPT !.pc = "crash"]
    ELSE IF id \in ServerIds /\ cat.um[id] # NULL
    THEN [done EXCEPT !.pc = "GetForeignServer",
                      !.user = Ptr([options |-> Deref(cat.um[id]),
                                    serverid |-> id])]
    ELSE [done EXCEPT !.pc = "error",
                      !.error = Error("ERRCODE_UNDEFINED_OBJECT",
                                      "user mapping not found", <<id>>)]

\* the outcomes of the psprintf of line 431 for these four objects
MergeOutcomes(call) ==
    ProfileOutcomes(
        MergeLoop(ConcatOptions(Deref(call.table), Deref(call.user),
                                Deref(call.server), Deref(call.wrapper)),
                  1, [opt |-> EmptyOptions, copy_options |-> <<>>,
                      other_options |-> <<>>, other_option_names |-> <<>>,
                      error |-> NoError]).opt)

\* the access to a foreign table begins
R_Call ==
    /\ r.pc = "idle"
    /\ catalog.ft # NULL
    /\ r' = [r EXCEPT !.pc = "GetForeignTable"]
    /\ UNCHANGED <<catalog, v>>

R_GetForeignTable ==
    /\ r.pc = "GetForeignTable"
    /\ r' = [r EXCEPT !.pc = "GetUserMapping",
                      !.table = Ptr(GetForeignTable(catalog)),
                      !.fetched = Append(@, <<"GetForeignTable", "">>)]
    /\ UNCHANGED <<catalog, v>>

R_GetUserMapping ==
    /\ r.pc = "GetUserMapping"
    /\ \E id \in ServerIdRead(r) : r' = GetUserMappingStep(r, catalog, id)
    /\ UNCHANGED <<catalog, v>>

R_GetForeignServer ==
    /\ r.pc = "GetForeignServer"
    /\ r' = [r EXCEPT !.pc = "GetForeignDataWrapper",
                      !.server = Ptr(GetForeignServer(catalog,
                                         Deref(r.table).serverid)),
                      !.fetched = Append(@, <<"GetForeignServer",
                                              Deref(r.table).serverid>>)]
    /\ UNCHANGED <<catalog, v>>

R_GetForeignDataWrapper ==
    /\ r.pc = "GetForeignDataWrapper"
    /\ r' = [r EXCEPT !.pc = "merge",
                      !.wrapper = Ptr(GetForeignDataWrapper(catalog)),
                      !.fetched = Append(@, <<"GetForeignDataWrapper", "">>)]
    /\ UNCHANGED <<catalog, v>>

R_Merge ==
    /\ r.pc = "merge"
    /\ \E outcome \in MergeOutcomes(r) :
         LET res == MergeOptions(Deref(r.table), Deref(r.user),
                                 Deref(r.server), Deref(r.wrapper), outcome)
         IN  r' = [r EXCEPT !.pc = res.pc, !.opt = res.opt,
                            !.error = res.error]
    /\ UNCHANGED <<catalog, v>>

ResolverNext ==
    \/ R_Call
    \/ R_GetForeignTable
    \/ R_GetUserMapping
    \/ R_GetForeignServer
    \/ R_GetForeignDataWrapper
    \/ R_Merge

----------------------------------------------------------------------------
(* One call of the validator, statement by statement.                      *)

V_ValidateOption ==
    /\ v.pc = "ValidateOption"
    /\ v' = VStep(v, NoError)
    /\ UNCHANGED <<catalog, r>>

V_Dispatch ==
    /\ v.pc = "dispatch"
    /\ v' = VStep(v, NoError)
    /\ UNCHANGED <<catalog, r>>

V_ProtocolCheck ==
    /\ v.pc = "protocol_check"
    /\ v' = VStep(v, NoError)
    /\ UNCHANGED <<catalog, r>>

V_ResourceCheck ==
    /\ v.pc = "resource_check"
    /\ v' = VStep(v, NoError)
    /\ UNCHANGED <<catalog, r>>

V_RejectLimitCheck ==
    /\ v.pc = "reject_limit_check"
    /\ v' = VStep(v, NoError)
    /\ UNCHANGED <<catalog, r>>

V_ValidateCopyOptions ==
    /\ v.pc = "ValidateCopyOptions"
    /\ \E outcome \in ProcessCopyOutcomes : v' = VStep(v, outcome)
    /\ UNCHANGED <<catalog, r>>

ValidatorNext ==
    \/ V_ValidateOption
    \/ V_Dispatch
    \/ V_ProtocolCheck
    \/ V_ResourceCheck
    \/ V_RejectLimitCheck
    \/ V_ValidateCopyOptions

----------------------------------------------------------------------------
(* Inputs.                                                                 *)

BoundedSeq(S, n) == UNION {[1..k -> S] : k \in 0..n}

\* the arrangements of the elements of a set of at most three elements
Arrangements(S) ==
    {q \in [1..Cardinality(S) -> S] : \A e \in S : \E i \in DOMAIN q : q[i] = e}

Levels == {ForeignDataWrapperRelationId, ForeignServerRelationId,
           UserMappingRelationId, ForeignTableRelationId, AttributeRelationId}

str_s3 == <<"s","3">>
str_path == <<"/","d">>
str_parquet == <<"p","a","r","q","u","e","t">>
str_percent_uc == <<"P","e","r","c","e","n","t">>
str_rows_uc == <<"R","O","W","S">>
str_true == <<"t","r","u","e">>
str_on == <<"o","n">>
str_maybe == <<"m","a","y","b","e">>
str_comma == <<",">>
str_bar == <<"|">>
str_one == <<"1">>
str_two == <<"2">>

\* the options a statement may carry
ValidatorPool ==
    {DefElem("protocol", str_s3), DefElem("protocol", <<>>),
     DefElem("resource", str_path), DefElem("resource", <<>>),
     DefElem("format", FDW_OPTION_FORMAT_CSV),
     DefElem("wire_format", FDW_OPTION_FORMAT_TEXT),
     DefElem("reject_limit", str_one), DefElem("reject_limit", str_maybe),
     DefElem("reject_limit_type", str_percent_uc),
     DefElem("reject_limit_type", str_maybe),
     DefElem("delimiter", str_comma),
     DefElem("force_not_null", str_true), DefElem("force_null", str_on),
     DefElem("x", str_one)}

InitValidator ==
    /\ catalog = EmptyCatalog
    /\ r = RIdle
    /\ \E cat \in Levels, options_list \in BoundedSeq(ValidatorPool, MaxLen) :
         v = VInit(options_list, cat)

SpecValidator == InitValidator /\ [][ValidatorNext]_vars

\* decimal numerals for reject_limit
Numerals ==
    {<<"0">>, <<"1">>, <<"2">>, <<"5","0">>, <<"1","0","0">>, <<"1","0","1">>,
     <<"-","1">>,
     <<"2","1","4","7","4","8","3","6","4","7">>,
     <<"2","1","4","7","4","8","3","6","4","8">>,
     <<"4","2","9","4","9","6","7","2","9","7">>,
     <<"4","2","9","4","9","6","7","3","4","6">>}

RejectLimitTypes ==
    {FDW_OPTION_REJECT_LIMIT_ROWS, FDW_OPTION_REJECT_LIMIT_PERCENT,
     str_rows_uc, str_percent_uc}

\* a foreign table's list: resource, a reject_limit and at most one
\* reject_limit_type, in every order
RejectLimitLists ==
    UNION {Arrangements({DefElem("resource", str_path),
                         DefElem("reject_limit", n)})
           \cup UNION {Arrangements({DefElem("resource", str_path),
                                     DefElem("reject_limit", n),
                                     DefElem("reject_limit_type", t)})
                       : t \in RejectLimitTypes}
           : n \in Numerals}

InitRejectLimit ==
    /\ catalog = EmptyCatalog
    /\ r = RIdle
    /\ \E options_list \in RejectLimitLists :
         v = VInit(options_list, ForeignTableRelationId)

SpecRejectLimit == InitRejectLimit /\ [][ValidatorNext]_vars

\* the option lists of one table, grouped by what they exercise
ResolverFamilies ==
    {{DefElem("x", str_one), DefElem("x", str_two), DefElem("y", str_one),
      DefElem("protocol", str_s3)},
     {DefElem("pxf_port", <<"0">>),
      DefElem("pxf_port", <<"6","5","5","3","4">>),
      DefElem("pxf_port", <<"6","5","5","3","5">>),
      DefElem("pxf_port", <<"-","1">>),
      DefElem("pxf_port", <<"4","2","9","4","9","6","7","2","9","7">>)},
     {DefElem("format", <<"C","s","v">>), DefElem("format", str_parquet),
      DefElem("format", <<"T","e","x","t",":","m">>),
      DefElem("wire_format", GpdbWritableFormatName)},
     {DefElem("delimiter", str_comma), DefElem("delimiter", str_bar),
      DefElem("format", FDW_OPTION_FORMAT_CSV),
      DefElem("format", str_parquet)},
     {DefElem("pxf_host", <<"a">>), DefElem("pxf_host", <<"b">>),
      DefElem("pxf_protocol", <<"h","t","t","p">>),
      DefElem("pxf_protocol", <<"h","t","t","p","s">>)},
     {DefElem("protocol", str_s3), DefElem("protocol", <<>>),
      DefElem("resource", str_path), DefElem("resource", <<>>)},
     {DefElem("reject_limit", str_one), DefElem("reject_limit", str_two),
      DefElem("reject_limit_type", str_rows_uc),
      DefElem("reject_limit_type", str_percent_uc)},
     {DefElem("wire_format", TextFormatName),
      DefElem("wire_format", GpdbWritableFormatName),
      DefElem("format", FDW_OPTION_FORMAT_CSV), DefElem("x", str_one)}}

\* the user mapping of the other server
OtherMapping == <<DefElem("x", str_two)>>

\* the catalog holding the four lists cut out of one sequence
CatalogOf(all, c1, c2, c3) ==
    [ft  |-> Ptr(SubSeq(all, 1, c1)),
     um  |-> [s \in ServerIds |->
                 IF s = TableServerId THEN Ptr(SubSeq(all, c1 + 1, c2))
                 ELSE Ptr(OtherMapping)],
     srv |-> Ptr(SubSeq(all, c2 + 1, c3)),
     fdw |-> Ptr(SubSeq(all, c3 + 1, Len(all)))]

InitResolver ==
    /\ v = VIdle
    /\ r = RIdle
    /\ \E fam \in ResolverFamilies :
         \E all \in BoundedSeq(fam, MaxTotal) :
           \E c1 \in 0..Len(all) : \E c2 \in c1..Len(all) :
             \E c3 \in c2..Len(all) :
               catalog = CatalogOf(all, c1, c2, c3)

SpecResolver == InitResolver /\ [][ResolverNext]_vars

----------------------------------------------------------------------------
(* The objects are created, each after the validator accepted its option   *)
(* list at the level of the object, and the foreign table is accessed.     *)

\* the options a statement may give at each level
WrapperLists == {<<>>, <<DefElem("x", str_one)>>,
                 <<DefElem("protocol", str_s3)>>,
                 <<DefElem("protocol", <<>>)>>,
                 <<DefElem("protocol", <<>>), DefElem("protocol", str_s3)>>,
                 <<DefElem("protocol", str_s3), DefElem("protocol", <<>>)>>}

ServerLists == {<<>>, <<DefElem("x", str_two)>>,
                <<DefElem("pxf_port", <<"8","0">>)>>,
                <<DefElem("resource", str_path)>>}

MappingLists == {<<>>, <<DefElem("x", str_one)>>,
                 <<DefElem("protocol", str_s3)>>,
                 <<DefElem("reject_limit", str_one)>>}

TablePool == {DefElem("resource", str_path), DefElem("resource", <<>>),
              DefElem("reject_limit", str_one),
              DefElem("reject_limit", <<"1","0","1">>),
              DefElem("reject_limit", <<"4","2","9","4","9","6","7","3","4","6">>),
              DefElem("reject_limit_type", str_percent_uc)}

TableLists == BoundedSeq(TablePool, MaxTableLen)

\* the validator, called with the list and the catalog of the object,
\* returned without reporting an error
Accepted(options_list, cat) ==
    \E outcome \in ProcessCopyOutcomes :
        pxf_fdw_validator(options_list, cat, outcome).pc = "return"

CreateForeignDataWrapper ==
    /\ catalog.fdw = NULL
    /\ \E options_list \in WrapperLists :
         /\ Accepted(options_list, ForeignDataWrapperRelationId)
         /\ catalog' = [catalog EXCEPT !.fdw = Ptr(options_list)]
    /\ UNCHANGED <<v, r>>

CreateServer ==
    /\ catalog.fdw # NULL
    /\ catalog.srv = NULL
    /\ \E options_list \in ServerLists :
         /\ Accepted(options_list, ForeignServerRelationId)
         /\ catalog' = [catalog EXCEPT !.srv = Ptr(options_list)]
    /\ UNCHANGED <<v, r>>

CreateUserMapping ==
    /\ catalog.srv # NULL
    /\ \E s \in ServerIds : \E options_list \in MappingLists :
         /\ catalog.um[s] = NULL
         /\ Accepted(options_list, UserMappingRelationId)
         /\ catalog' = [catalog EXCEPT !.um[s] = Ptr(options_list)]
    /\ UNCHANGED <<v, r>>

CreateForeignTable ==
    /\ catalog.srv # NULL
    /\ catalog.ft = NULL
    /\ \E options_list \in TableLists :
         /\ Accepted(options_list, ForeignTableRelationId)
         /\ catalog' = [catalog EXCEPT !.ft = Ptr(options_list)]
    /\ UNCHANGED <<v, r>>

Init ==
    /\ catalog = EmptyCatalog
    /\ v = VIdle
    /\ r = RIdle

Next ==
    \/ CreateForeignDataWrapper
    \/ CreateServer
    \/ CreateUserMapping
    \/ CreateForeignTable
    \/ ResolverNext

Spec == Init /\ [][Next]_vars

----------------------------------------------------------------------------
(* Vocabulary of the properties.                                           *)

Last(q) == q[Len(q)]

\* a call of the validator has ended
VEnded == v.pc \in {"return", "error"}

\* the statement executed last in the call, "" before the first
VLast == IF v.trace = <<>> THEN "" ELSE Last(v.trace)[1]

ObjectLevels == {ForeignDataWrapperRelationId, ForeignServerRelationId,
                 UserMappingRelationId, ForeignTableRelationId}

ConnectorOptionNames == {"protocol", "resource", "format", "wire_format",
                         "reject_limit", "reject_limit_type"}

\* the single legal level of a connector option
LegalLevel(name) ==
    IF name = "protocol" THEN ForeignDataWrapperRelationId
    ELSE ForeignTableRelationId

WrongCatalogLevel(name) ==
    Error("ERRCODE_FDW_INVALID_OPTION_NAME",
          "the option can only be defined at the level",
          <<name, LegalLevel(name)>>)

IsDynamicParameterValueNeeded(e) ==
    e.errcode = "ERRCODE_FDW_DYNAMIC_PARAMETER_VALUE_NEEDED"

IsInvalidStringFormat(e) ==
    e.errcode = "ERRCODE_FDW_INVALID_STRING_FORMAT"

\* the positions of the options of this name
Positions(list, name) == {i \in 1..Len(list) : list[i].defname = name}

\* no option of this name, or the last one has the empty value
MissingOrEmpty(list, name) ==
    \/ Positions(list, name) = {}
    \/ list[CHOOSE i \in Positions(list, name) :
                \A j \in Positions(list, name) : j <= i].arg = <<>>

----------------------------------------------------------------------------
(* C1.  Level Validator law: ValidateOption accepts a connector option at  *)
(* its single legal level, fails with the wrong-catalog-level error naming *)
(* that level at every other level, and does nothing for any other name.   *)

C1_LevelValidatorLaw ==
    (VLast = "ValidateOption" /\ v.catalog \in ObjectLevels) =>
        LET name == v.options_list[v.cell].defname IN
        IF name \in ConnectorOptionNames /\ v.catalog # LegalLevel(name)
        THEN v.pc = "error" /\ v.reported = <<WrongCatalogLevel(name)>>
        ELSE v.pc = "dispatch" /\ v.reported = <<>>

C1_Witness ==
    /\ VLast = "ValidateOption"
    /\ v.pc = "error"
    /\ v.catalog = UserMappingRelationId
    /\ v.options_list[v.cell].defname = "reject_limit"

----------------------------------------------------------------------------
(* C3.  Reject-limit boundary: a foreign table's list of resource, a       *)
(* reject_limit n and an optional reject_limit_type, in any order, is      *)
(* accepted exactly when (rows or no type, n >= 2) or (percent,            *)
(* 1 <= n <= 100), and is otherwise rejected with InvalidStringFormat.     *)

\* the numeral, written without leading zeros, denotes an integer >= 2
DenotesAtLeast2(s) ==
    /\ IsDigit(s[1])
    /\ (Len(s) >= 2 \/ DigitVal(s[1]) >= 2)

\* the numeral, written without leading zeros, denotes an integer in 1..100
DenotesPercent(s) ==
    /\ IsDigit(s[1])
    /\ \/ Len(s) = 1 /\ DigitVal(s[1]) >= 1
       \/ Len(s) = 2
       \/ s = <<"1","0","0">>

C3_RejectLimitBoundary ==
    VEnded =>
        LET list == v.options_list
            n == list[CHOOSE i \in Positions(list, "reject_limit") : TRUE].arg
            percent == \E i \in Positions(list, "reject_limit_type") :
                           list[i].arg \in {FDW_OPTION_REJECT_LIMIT_PERCENT,
                                            str_percent_uc}
            accepted == IF percent THEN DenotesPercent(n)
                        ELSE DenotesAtLeast2(n)
        IN  IF accepted THEN v.pc = "return"
            ELSE v.pc = "error" /\ IsInvalidStringFormat(v.reported[1])

----------------------------------------------------------------------------
(* C5.  Required-field law.  As stated: at Wrapper level a list with no    *)
(* protocol, or whose last protocol is empty, fails with                   *)
(* DynamicParameterValueNeeded; at ForeignTable level the same for         *)
(* resource; at Server and UserMapping level the empty list is accepted.   *)

C5_RequiredFieldLaw_AsStated ==
    VEnded =>
        /\ (v.catalog = ForeignDataWrapperRelationId
              /\ MissingOrEmpty(v.options_list, "protocol"))
           => (v.pc = "error" /\ IsDynamicParameterValueNeeded(v.reported[1]))
        /\ (v.catalog = ForeignTableRelationId
              /\ MissingOrEmpty(v.options_list, "resource"))
           => (v.pc = "error" /\ IsDynamicParameterValueNeeded(v.reported[1]))
        /\ (v.catalog \in {ForeignServerRelationId, UserMappingRelationId}
              /\ v.options_list = <<>>)
           => v.pc = "return"

(* C5, amended.  Such a list is always rejected: with                      *)
(* DynamicParameterValueNeeded by the required-field check when every      *)
(* option passed its per-option checks, and otherwise by the per-option    *)
(* check of the first option that fails one; at Server and UserMapping     *)
(* level the empty list is accepted.                                       *)

C5_RequiredFieldLaw ==
    VEnded =>
        /\ (v.catalog = ForeignDataWrapperRelationId
              /\ MissingOrEmpty(v.options_list, "protocol"))
           => /\ v.pc = "error"
              /\ \/ VLast \in {"ValidateOption", "dispatch"}
                 \/ /\ VLast = "protocol_check"
                    /\ IsDynamicParameterValueNeeded(v.reported[1])
        /\ (v.catalog = ForeignTableRelationId
              /\ MissingOrEmpty(v.options_list, "resource"))
           => /\ v.pc = "error"
              /\ \/ VLast \in {"ValidateOption", "dispatch"}
                 \/ /\ VLast = "resource_check"
                    /\ IsDynamicParameterValueNeeded(v.reported[1])
        /\ (v.catalog \in {ForeignServerRelationId, UserMappingRelationId}
              /\ v.options_list = <<>>)
           => v.pc = "return"

C5_Witness ==
    /\ v.pc = "error"
    /\ VLast = "protocol_check"
    /\ v.catalog = ForeignDataWrapperRelationId
    /\ Len(v.options_list) = 2
    /\ v.options_list[1] = DefElem("protocol", str_s3)
    /\ v.options_list[2] = DefElem("protocol", <<>>)

----------------------------------------------------------------------------
(* C7.  Duplicate-flag law.  As stated: when the validator delegates its   *)
(* row-format set with the level it was called for, a set with two         *)
(* force_not_null (or two force_null) entries fails with SyntaxError       *)
(* "conflicting or redundant options", and a set of exactly one            *)
(* force_not_null and one force_null succeeds.                             *)

Count(list, name) == Cardinality(Positions(list, name))

IsConflictingOptions(e) ==
    e.errcode = "ERRCODE_SYNTAX_ERROR"
        /\ e.errmsg = "conflicting or redundant options"

IsInvalidOption(e) ==
    e.errcode = "ERRCODE_FDW_INVALID_OPTION_NAME" /\ e.errmsg = "invalid option"

\* the set handed to ValidateCopyOptions by the call that has ended
Delegated == v.delegated[1].options_list

HasTwoOfAFlag(list) ==
    Count(list, "force_not_null") >= 2 \/ Count(list, "force_null") >= 2

IsOneOfEachFlag(list) ==
    /\ Len(list) = 2
    /\ Count(list, "force_not_null") = 1
    /\ Count(list, "force_null") = 1

C7_DuplicateFlagLaw_AsStated ==
    (VEnded /\ v.delegated # <<>>) =>
        /\ HasTwoOfAFlag(Delegated)
           => (v.pc = "error" /\ IsConflictingOptions(v.reported[1]))
        /\ IsOneOfEachFlag(Delegated) => v.pc = "return"

(* C7, amended.  The law holds when the validator was called for a column  *)
(* (pg_attribute) and the delegated set holds only force_not_null and      *)
(* force_null entries whose values are legal booleans.  At Wrapper,        *)
(* Server, UserMapping and ForeignTable level every delegated set that     *)
(* holds a force_not_null or force_null entry fails with InvalidOptionName.*)

OnlyLegalFlags(list) ==
    \A i \in 1..Len(list) :
        /\ list[i].defname \in {"force_not_null", "force_null"}
        /\ list[i].arg \in {str_true, str_on}

C7_DuplicateFlagLaw ==
    (VEnded /\ v.delegated # <<>>) =>
        /\ (v.catalog = AttributeRelationId /\ OnlyLegalFlags(Delegated))
           => /\ HasTwoOfAFlag(Delegated)
                 => (v.pc = "error" /\ IsConflictingOptions(v.reported[1]))
              /\ IsOneOfEachFlag(Delegated) => v.pc = "return"
        /\ (v.catalog \in ObjectLevels
              /\ Count(Delegated, "force_not_null")
                   + Count(Delegated, "force_null") > 0)
           => (v.pc = "error" /\ IsInvalidOption(v.reported[1]))

C7_Witness ==
    /\ v.pc = "error"
    /\ v.catalog = AttributeRelationId
    /\ v.delegated # <<>>
    /\ Delegated = <<DefElem("force_not_null", str_true),
                     DefElem("force_not_null", str_true)>>

----------------------------------------------------------------------------
(* C10.  Fail-fast ordering of the validator: the options are checked in   *)
(* list order, the level check of an option before its value check; the    *)
(* error reported is that of the first offending option; the required-     *)
(* field checks run only after every option passed, the reject-limit       *)
(* cross-check after those, the delegate last and only if all of them      *)
(* passed; at most one error is reported per call.                         *)

IsPrefix(p, q) == Len(p) <= Len(q) /\ SubSeq(q, 1, Len(p)) = p

\* the statements of a call that raises no error, in order
FullTrace(list) ==
    LET n == Len(list)
        m == IF n = 0 THEN 1 ELSE n
    IN  [i \in 1..(2 * n) |->
            IF i % 2 = 1 THEN <<"ValidateOption", (i + 1) \div 2>>
            ELSE <<"dispatch", i \div 2>>]
        \o <<<<"protocol_check", m>>, <<"resource_check", m>>,
             <<"reject_limit_check", m>>, <<"ValidateCopyOptions", m>>>>

\* the validator called for this option alone rejects it in the foreach
OptionResult(def, cat) == pxf_fdw_validator(<<def>>, cat, NoError)

Offends(def, cat) ==
    LET one == OptionResult(def, cat)
    IN  one.pc = "error" /\ Last(one.trace)[1] \in {"ValidateOption", "dispatch"}

Offending(list, cat) == {i \in 1..Len(list) : Offends(list[i], cat)}

C10_FailFastOrdering ==
    LET bad == Offending(v.options_list, v.catalog) IN
    /\ IsPrefix(v.trace, FullTrace(v.options_list))
    /\ Len(v.reported) <= 1
    /\ Len(v.delegated) <= 1
    /\ (v.reported # <<>>) <=> (v.pc = "error")
    /\ (v.pc = "error") => (v.trace # <<>> /\ v.cell = Last(v.trace)[2])
    /\ (v.pc = "error" /\ VLast \in {"ValidateOption", "dispatch"})
       => /\ bad # {}
          /\ v.cell = Min(bad)
          /\ v.reported =
                OptionResult(v.options_list[v.cell], v.catalog).reported
          /\ VLast = Last(OptionResult(v.options_list[v.cell],
                                       v.catalog).trace)[1]
    /\ (v.pc \in {"ValidateOption", "dispatch"})
       => \A j \in bad : j >= v.cell
    /\ (VLast \in {"protocol_check", "resource_check", "reject_limit_check",
                   "ValidateCopyOptions"})
       => bad = {}
    /\ (v.delegated # <<>>)
       => /\ v.trace = FullTrace(v.options_list)
          /\ (v.pc = "error" => VLast = "ValidateCopyOptions")

\* the second of three options is reported although the third offends too
C10_Witness ==
    /\ v.pc = "error"
    /\ Len(v.options_list) = 3
    /\ v.cell = 2
    /\ VLast = "dispatch"
    /\ Offends(v.options_list[3], v.catalog)

----------------------------------------------------------------------------
(* Vocabulary of the properties of the resolver.                           *)

\* the four lists the call concatenated, in the order of lines 365-368
Concatenated ==
    Deref(r.table).options \o Deref(r.user).options
        \o Deref(r.server).options \o Deref(r.wrapper).options

NamedFields == {"pxf_host", "pxf_port", "pxf_protocol", "protocol",
                "resource", "format", "wire_format", "reject_limit",
                "reject_limit_type"}

RowFormatNames == {"format", "header", "delimiter", "quote", "escape", "null",
                   "encoding", "newline", "fill_missing_fields",
                   "force_not_null", "force_null"}

First(S) == CHOOSE i \in S : \A j \in S : i <= j

----------------------------------------------------------------------------
(* C2.  Precedence law: for every name that is neither a named field nor   *)
(* a row-format option, the generic pass-through list of the result holds  *)
(* exactly one entry of that name, with the value of its first occurrence  *)
(* in the order ForeignTable, UserMapping, Server, Wrapper.                *)

C2_PrecedenceLaw ==
    (r.pc = "return") =>
        \A i \in 1..Len(Concatenated) :
            LET x == Concatenated[i].defname IN
            (x \notin NamedFields \cup RowFormatNames) =>
                /\ Count(r.opt.options, x) = 1
                /\ \A k \in Positions(r.opt.options, x) :
                       r.opt.options[k]
                           = Concatenated[First(Positions(Concatenated, x))]

C2_Witness ==
    /\ r.pc = "return"
    /\ Deref(r.table).options = <<DefElem("x", str_one)>>
    /\ Deref(r.user).options = <<>>
    /\ Deref(r.wrapper).options = <<DefElem("x", str_two)>>
    /\ r.opt.options = <<DefElem("x", str_one)>>

----------------------------------------------------------------------------
(* C4.  Format derivation: with no wire_format option in the merged list,  *)
(* the resolved wire_format is the text-wire token when the format         *)
(* contains "text" or equals "csv" or "rc" ignoring case, and the          *)
(* binary-writable token for every other format and when format is unset.  *)

C4_FormatDerivation ==
    (r.pc = "return" /\ Positions(Concatenated, "wire_format") = {}) =>
        LET fs == Positions(Concatenated, "format")
            rowBased ==
                \E i \in fs :
                    /\ \A j \in fs : j <= i
                    /\ LET f == Concatenated[i].arg IN
                       \/ strcasestr(f, <<"t","e","x","t">>)
                       \/ FoldCase(f) = <<"c","s","v">>
                       \/ FoldCase(f) = <<"r","c">>
        IN  r.opt.wire_format
                = Ptr(IF rowBased THEN TextFormatName
                      ELSE GpdbWritableFormatName)

----------------------------------------------------------------------------
(* C6.  Port boundary: resolution fails with the invalid-port error when   *)
(* a pxf_port p has p <= 0 or p >= 65535 and succeeds with port = p when   *)
(* 1 <= p <= 65534; the default port is used only when no pxf_port option  *)
(* is present.                                                             *)

RECURSIVE DecimalValue(_, _)
\* the integer a numeral of at most five digits denotes
DecimalValue(s, n) ==
    IF n = 0 THEN 0 ELSE DecimalValue(s, n - 1) * 10 + DigitVal(s[n])

\* the numeral, written without leading zeros, denotes an integer in
\* 1..65534
DenotesPort(s) ==
    /\ IsDigit(s[1])
    /\ Len(s) <= 5
    /\ DecimalValue(s, Len(s)) >= 1
    /\ DecimalValue(s, Len(s)) <= 65534

----------------------------------------------------------------------------
(* C9.  Row-format options of the result.  As stated: the row-format list  *)
(* holds at most one entry per option name, the first occurrence of the    *)
(* name in the order ForeignTable, UserMapping, Server, Wrapper.           *)

C9_RowFormatDeduplicated_AsStated ==
    (r.pc = "return") =>
        \A k \in 1..Len(r.opt.copy_options) :
            LET x == r.opt.copy_options[k].defname IN
            /\ Count(r.opt.copy_options, x) = 1
            /\ r.opt.copy_options[k]
                   = Concatenated[First(Positions(Concatenated, x))]

(* C9, amended.  The row-format list is not deduplicated: it holds, in     *)
(* the order of the concatenation, every occurrence of an option whose     *)
(* name is a row-format name other than format, and every occurrence of    *)
(* format whose value is "text" or "csv" ignoring case; a name that occurs *)
(* twice has two entries.                                                  *)

IsForwarded(def) ==
    IF def.defname = "format"
    THEN FoldCase(def.arg) \in {<<"t","e","x","t">>, <<"c","s","v">>}
    ELSE def.defname \in RowFormatNames

C9_RowFormatAllOccurrences ==
    (r.pc = "return") =>
        r.opt.copy_options = SelectSeq(Concatenated, IsForwarded)

C9_Witness ==
    /\ r.pc = "return"
    /\ Deref(r.table).options = <<DefElem("delimiter", str_comma)>>
    /\ Deref(r.server).options = <<DefElem("delimiter", str_bar)>>
    /\ r.opt.copy_options = <<DefElem("delimiter", str_comma),
                              DefElem("delimiter", str_bar)>>

----------------------------------------------------------------------------
(* C8.  Merged Configuration invariant across validate-then-resolve: when  *)
(* each of the four lists was accepted by the validator at its own level,  *)
(* the configuration the resolver returns has a non-empty protocol and a   *)
(* non-empty resource, and its reject limit, if set, is at least 2 when    *)
(* counted in rows and within 1..100 when counted in percent.              *)

C8_MergedConfigurationInvariant ==
    (r.pc = "return") =>
        /\ r.opt.protocol # NULL
        /\ Deref(r.opt.protocol) # <<>>
        /\ r.opt.resource # NULL
        /\ Deref(r.opt.resource) # <<>>
        /\ (r.opt.reject_limit # -1) =>
               IF r.opt.is_reject_limit_rows
               THEN r.opt.reject_limit >= 2
               ELSE r.opt.reject_limit >= 1 /\ r.opt.reject_limit <= 100

\* a table whose percent limit the validator accepted has been resolved
C8_Witness ==
    /\ r.pc = "return"
    /\ Deref(r.table).options
           = <<DefElem("resource", str_path),
               DefElem("reject_limit", str_one),
               DefElem("reject_limit_type", str_percent_uc)>>
    /\ Accepted(Deref(r.table).options, ForeignTableRelationId)
    /\ Accepted(Deref(r.user).options, UserMappingRelationId)
    /\ Accepted(Deref(r.server).options, ForeignServerRelationId)
    /\ Accepted(Deref(r.wrapper).options, ForeignDataWrapperRelationId)
    /\ Deref(r.opt.protocol) = str_s3
    /\ Deref(r.opt.resource) = str_path
    /\ r.opt.reject_limit = 1
    /\ ~r.opt.is_reject_limit_rows

----------------------------------------------------------------------------
(* C11.  Fetch ordering of the resolver: the objects are fetched in the    *)
(* order table, server, user mapping, wrapper, and the id used to fetch    *)
(* the user mapping is the id of a server fetched before it.               *)

\* the functions called so far by the access, in the order of the calls
FetchedNames == [i \in 1..Len(r.fetched) |-> r.fetched[i][1]]

DependencyOrder == <<"GetForeignTable", "GetForeignServer", "GetUserMapping",
                     "GetForeignDataWrapper">>

C11_FetchOrdering ==
    /\ IsPrefix(FetchedNames, DependencyOrder)
    /\ \A i \in 1..Len(r.fetched) :
           (r.fetched[i][1] = "GetUserMapping") =>
               \E j \in 1..(i - 1) :
                   /\ r.fetched[j][1] = "GetForeignServer"
                   /\ r.fetched[j][2] = r.fetched[i][2]

----------------------------------------------------------------------------
(* C12.  Named fields of the result: when a name of a named field occurs   *)
(* in the concatenation ForeignTable, UserMapping, Server, Wrapper, the    *)
(* field of the returned configuration holds the value of the last         *)
(* occurrence of the name (as a string, as the integer atoi reads from it  *)
(* for pxf_port and reject_limit, and as the comparison with "rows" for    *)
(* reject_limit_type).                                                     *)

\* the value of the last occurrence of a name that occurs
LastArg(name) ==
    LET ps == Positions(Concatenated, name)
    IN  Concatenated[CHOOSE i \in ps : \A j \in ps : j <= i].arg

Occurs(name) == Positions(Concatenated, name) # {}

C12_NamedFieldLastWins ==
    (r.pc = "return") =>
        /\ Occurs("pxf_host") => r.opt.pxf_host = Ptr(LastArg("pxf_host"))
        /\ Occurs("pxf_port") => r.opt.pxf_port = atoi(LastArg("pxf_port"))
        /\ Occurs("pxf_protocol") =>
               r.opt.pxf_protocol = Ptr(LastArg("pxf_protocol"))
        /\ Occurs("protocol") => r.opt.protocol = Ptr(LastArg("protocol"))
        /\ Occurs("resource") => r.opt.resource = Ptr(LastArg("resource"))
        /\ Occurs("format") => r.opt.format = Ptr(LastArg("format"))
        /\ Occurs("wire_format") =>
               r.opt.wire_format = Ptr(LastArg("wire_format"))
        /\ Occurs("reject_limit") =>
               r.opt.reject_limit = atoi(LastArg("reject_limit"))
        /\ Occurs("reject_limit_type") =>
               r.opt.is_reject_limit_rows
                   = (FoldCase(LastArg("reject_limit_type"))
                          = <<"r","o","w","s">>)

\* pxf_host given for the table and for the server resolves to the value
\* of the server
C12_Witness ==
    /\ r.pc = "return"
    /\ Deref(r.table).options = <<DefElem("pxf_host", <<"a">>)>>
    /\ Deref(r.user).options = <<>>
    /\ Deref(r.server).options = <<DefElem("pxf_host", <<"b">>)>>
    /\ Concatenated = <<DefElem("pxf_host", <<"a">>),
                        DefElem("pxf_host", <<"b">>)>>
    /\ r.opt.pxf_host = Ptr(<<"b">>)

====
